---- MODULE Spec2Model ----
(***************************************************************************)
(* Runtime coverage endpoints of package coverage in a deployment of       *)
(* several replicas behind one load-balanced URL.                          *)
(*                                                                         *)
(* A replica's identity (hostname) is a number in Replicas; NoHost is the  *)
(* empty string that Header.Get returns for a header that is not set.      *)
(* Time is counted in whole seconds.                                       *)
(*                                                                         *)
(* HTTP calls are synchronous: the handlers that are running form a stack. *)
(* stack[1] serves the external client, stack[i+1] serves the request      *)
(* that the loop of stack[i] is waiting for.  A nested handler that runs   *)
(* longer than reqTimeout loses its client (the client's context expires). *)
(* It goes on in the background, where nobody reads its answers: of such   *)
(* orphans the model keeps only that they may clear counters anywhere.     *)
(***************************************************************************)
EXTENDS Integers, Sequences, FiniteSets, TLC

\* ---- bounds of the model
NumReplicas == 2      \* replicas deployed behind the entry URL
MaxPods == 3          \* largest value given to SetNumberPods
MaxDepth == 2         \* nested handlers that are followed through their loops

\* ---- program constants
reqTimeout == 3       \* coverage.go:112, coverage.go:196
allReqTimeout == 15   \* coverage.go:113, coverage.go:197

Replicas == 1..NumReplicas
NoHost == 0
Idents == {NoHost} \cup Replicas
NoFile == ""
CounterFile == "covcounters"

\* how long a request takes: it is answered at once or it uses its allotment
Durations == {0, reqTimeout}

VARIABLES
    numberPods,   \* var numberPods
    urlOK,        \* whether the URL built by getURL parses (it depends on r.Host)
    stack,        \* running handlers, innermost last
    cleared,      \* replicas that ran ClearCounters since the external request arrived
    orphans,      \* whether a handler abandoned by its client is still running
    sent,         \* the response a handler sent in the last step (NoResponse if none)
    report,       \* a run of calculateTotalCoverage: its input and its locals
    running,      \* handlers that one instance runs at the same time, by request
    body          \* the body of the response that a loop received last

vars ==
    <<numberPods, urlOK, stack, cleared, orphans, sent, report, running, body>>

ZeroCount == [i \in Idents |-> 0]

\* A handler activation: the request it serves, the response it builds, the
\* state of its collection loop and what it has done so far.
NewFrame(kind, host, hdr) ==
    [kind |-> kind, host |-> host, hdr |-> hdr,
     pc |-> "start",
     status |-> 0, hostHdr |-> NoHost, fileHdr |-> NoFile, body |-> "none",
     hosts |-> {}, elapsed |-> 0, err |-> "none",
     scratch |-> 0, subdirs |-> ZeroCount, artifacts |-> ZeroCount, stray |-> 0,
     didClear |-> FALSE, didDump |-> FALSE, didMkdir |-> FALSE,
     didRequest |-> FALSE, didFail |-> FALSE,
     didMerge |-> FALSE, didPercent |-> FALSE]


\* w.WriteHeader: only the first call sets the status
WriteHeader(f, code) ==
    IF f.status = 0 THEN [f EXCEPT !.status = code] ELSE f

\* w.Write: an implicit 200 when no status was written before
WriteBody(f, b) ==
    [WriteHeader(f, 200) EXCEPT !.body = b]

\* the handler returns; net/http sends 200 when nothing was written
Finish(f) ==
    [WriteHeader(f, 200) EXCEPT !.pc = "done"]

\* what the client of a handler sees, and what the handler did to produce it
Response(f) ==
    [kind |-> f.kind, host |-> f.host, hdr |-> f.hdr,
     status |-> f.status, hostHdr |-> f.hostHdr, fileHdr |-> f.fileHdr,
     body |-> f.body,
     didClear |-> f.didClear, didDump |-> f.didDump, didMkdir |-> f.didMkdir,
     didRequest |-> f.didRequest, scratch |-> f.scratch]

NoResponse == Response(NewFrame("none", NoHost, NoHost))

Top == stack[Len(stack)]

\* The client of the innermost handler is still waiting for it. A handler
\* nested deeper than MaxDepth is not followed through its loop: it is one
\* that takes longer than its client waits.
Alive ==
    \/ Len(stack) = 1
    \/ Len(stack) <= MaxDepth /\ Top.elapsed <= reqTimeout

SetTop(f) == [stack EXCEPT ![Len(stack)] = f]

\* ------------------------------------------------------------------------
\* the loop of requestOtherProfile and of resetOtherProfile

\* a return statement of the loop function
Returned(f, e) ==
    [f EXCEPT !.pc = "returned", !.err = e]

\* a loop that allows itself one more request after the budget is spent
LoopHead_LateBudget(f) ==
    IF Cardinality(f.hosts) >= numberPods THEN Returned(f, "none")
    ELSE IF f.elapsed > allReqTimeout + reqTimeout THEN Returned(f, "timeout")
    ELSE IF ~urlOK THEN Returned(f, "request")
    ELSE [f EXCEPT !.pc = "request"]

\* a loop that goes on until it knows more than numberPods hosts
LoopHead_Inclusive(f) ==
    IF Cardinality(f.hosts) > numberPods THEN Returned(f, "none")
    ELSE IF f.elapsed > allReqTimeout THEN Returned(f, "timeout")
    ELSE IF ~urlOK THEN Returned(f, "request")
    ELSE [f EXCEPT !.pc = "request"]

\* From the loop condition to the next outbound request: the loop ends when
\* enough hosts are known, fails when the budget is spent or the request
\* cannot be built, and otherwise issues the request.
LoopHead(f) ==
    IF Cardinality(f.hosts) >= numberPods THEN Returned(f, "none")
    ELSE IF f.elapsed > allReqTimeout THEN Returned(f, "timeout")
    ELSE IF ~urlOK THEN Returned(f, "request")
    ELSE [f EXCEPT !.pc = "request"]

\* the loop saw http.DefaultClient.Do fail
Failed(f) ==
    [f EXCEPT !.didFail = TRUE]

\* a loop that skips a request that failed and asks again
TransportError_Skip(f, d) ==
    LoopHead([f EXCEPT !.elapsed = @ + d, !.didRequest = TRUE])

\* http.DefaultClient.Do returned an error after d seconds
TransportError(f, d) ==
    Returned([f EXCEPT !.elapsed = @ + d, !.didRequest = TRUE], "transport")

\* write(p, parentDir, dirName, fileName). The error of os.MkdirTemp is
\* dropped: with no directory ("nodir") the metadata and the counter file go
\* to the path "" + name, the working directory, when that can be written
\* (stray), and the metadata dump fails otherwise ("nodir_meta").
WriteOutcomes == {"ok", "meta", "create", "write", "nodir", "nodir_meta"}

write(f, dirName, fileName, wio) ==
    IF wio = "nodir_meta" THEN Returned(f, "write")
    ELSE IF wio = "nodir" THEN
        IF fileName = NoFile THEN Returned(f, "write")
        ELSE [f EXCEPT !.stray = 1]
    ELSE LET g == [f EXCEPT !.subdirs[dirName] = @ + 1] IN
        IF wio = "meta" THEN Returned(g, "write")
        ELSE IF fileName = NoFile \/ wio = "create" THEN Returned(g, "write")
        ELSE LET h == [g EXCEPT !.artifacts[dirName] = @ + 1] IN
            IF wio = "write" THEN Returned(h, "write") ELSE h

\* One answered request of requestOtherProfile: resp came after d seconds;
\* sio tells whether io.ReadAll fails ("read") and else how write ends.
StoreOutcomes == {"read"} \cup WriteOutcomes

\* a loop that stores every answer, also of a host it knows
CollectResponse_NoDedup(f, resp, d, sio) ==
    LET g == [f EXCEPT !.elapsed = @ + d, !.didRequest = TRUE]
        h == [g EXCEPT !.hosts = @ \cup {resp.hostHdr}]
    IN  IF sio = "read" THEN Returned(h, "read")
        ELSE LET w == write(h, resp.hostHdr, resp.fileHdr, sio) IN
            IF w.pc = "returned" THEN w ELSE LoopHead(w)

CollectResponse(f, resp, d, sio) ==
    LET g == [f EXCEPT !.elapsed = @ + d, !.didRequest = TRUE]
        responseHostname == resp.hostHdr
        filename == resp.fileHdr
    IN  IF responseHostname \in g.hosts THEN LoopHead(g)
        ELSE LET h == [g EXCEPT !.hosts = @ \cup {responseHostname}] IN
            IF sio = "read" THEN Returned(h, "read")
            ELSE LET w == write(h, responseHostname, filename, sio) IN
                IF w.pc = "returned" THEN w ELSE LoopHead(w)

\* Whether the body of the loop of requestOtherProfile, run by f on the
\* answer resp, reaches resp.Body.Close(), its last statement: not after
\* the continue for a host that is known and not after a return.
CollectCloses(f, resp, sio) ==
    LET responseHostname == resp.hostHdr
        filename == resp.fileHdr
    IN  IF responseHostname \in f.hosts THEN FALSE
        ELSE IF sio = "read" THEN FALSE
        ELSE write(f, responseHostname, filename, sio).pc # "returned"

\* the same for resetOtherProfile, which returns nowhere in its loop body
BroadcastCloses(f, resp) ==
    LET responseHostname == resp.hostHdr
    IN  IF responseHostname \in f.hosts THEN FALSE
        ELSE TRUE

\* One answered request of resetOtherProfile.
BroadcastResponse(f, resp, d) ==
    LET g == [f EXCEPT !.elapsed = @ + d]
        responseHostname == resp.hostHdr
    IN  IF responseHostname \in g.hosts THEN LoopHead(g)
        ELSE LoopHead([g EXCEPT !.hosts = @ \cup {responseHostname}])

\* ------------------------------------------------------------------------
\* handlers

\* CovBinProfileHandler on replica host for a request with x-hostname hdr;
\* io names the step that fails, if any.
ProfileOutcomes == {"ok", "mkdir", "meta", "counters", "readdir", "readfile"}

\* os.RemoveAll(tmpDir)
RemoveAll(f) == [f EXCEPT !.scratch = 0]

\* a profile handler that removes its directory at its end, without defer
CovBinProfileHandler_NoDefer(host, hdr, io) ==
    LET f == NewFrame("profile", host, hdr) IN
    IF hdr = host THEN Finish(WriteHeader(f, 200))
    ELSE IF io = "mkdir" THEN Finish(WriteHeader(f, 500))
    ELSE LET g == [f EXCEPT !.didMkdir = TRUE, !.scratch = 1] IN
        IF io \in {"meta", "counters"} THEN Finish(WriteHeader(g, 500))
        ELSE LET h == [g EXCEPT !.didDump = TRUE] IN
            IF io = "readdir" THEN Finish(WriteHeader(h, 500))
            ELSE IF io = "readfile" THEN RemoveAll(Finish(h))
            ELSE RemoveAll(Finish(WriteBody([h EXCEPT !.fileHdr = CounterFile,
                                                      !.hostHdr = host], "data")))

\* The directory is removed by the deferred os.RemoveAll when the handler
\* returns, wherever it returns after os.MkdirTemp.
CovBinProfileHandler(host, hdr, io) ==
    LET f == NewFrame("profile", host, hdr) IN
    IF hdr = host THEN Finish(WriteHeader(f, 200))
    ELSE IF io = "mkdir" THEN Finish(WriteHeader(f, 500))
    ELSE LET g == [f EXCEPT !.didMkdir = TRUE, !.scratch = 1] IN
        IF io \in {"meta", "counters"} THEN RemoveAll(Finish(WriteHeader(g, 500)))
        ELSE LET h == [g EXCEPT !.didDump = TRUE] IN
            IF io = "readdir" THEN RemoveAll(Finish(WriteHeader(h, 500)))
            ELSE IF io = "readfile" THEN RemoveAll(Finish(h))
            ELSE RemoveAll(Finish(WriteBody([h EXCEPT !.fileHdr = CounterFile,
                                                      !.hostHdr = host], "data")))

\* a reset handler that clears the counters before it looks at x-hostname
EnterReset_ClearFirst(host, hdr, cc) ==
    LET f == NewFrame("reset", host, hdr) IN
    IF ~cc THEN Finish(WriteHeader(f, 500))
    ELSE IF hdr = host THEN Finish(WriteHeader([f EXCEPT !.didClear = TRUE], 200))
    ELSE LoopHead([f EXCEPT !.didClear = TRUE, !.hosts = {host}])

\* CovResetHandler up to its first outbound request; cc tells whether
\* coverage.ClearCounters succeeds.
EnterReset(host, hdr, cc) ==
    LET f == NewFrame("reset", host, hdr) IN
    IF hdr = host THEN Finish(WriteHeader(f, 200))
    ELSE IF ~cc THEN Finish(WriteHeader(f, 500))
    ELSE LoopHead([f EXCEPT !.didClear = TRUE, !.hosts = {host}])

\* writeBinCoverage followed by the start of requestOtherProfile in
\* CovPercentHandler: a failure is reported and the handler goes on.
\* CovHTMLHandler returns on the failure. The directory that writeBinCoverage
\* made stays, also when a later step of it fails; no handler removes it.
DumpOutcomes == {"ok", "mkdir", "subdir", "meta", "counters"}

EnterAggregate(kind, host, hdr, wb) ==
    LET f == [NewFrame(kind, host, hdr) EXCEPT
                 !.didMkdir = (wb # "mkdir"),
                 !.scratch = (IF wb # "mkdir" THEN 1 ELSE 0),
                 !.didDump = (wb = "ok")]
        g == IF wb = "ok" THEN f ELSE WriteHeader(f, 500)
    IN  IF wb # "ok" /\ kind = "html" THEN Finish(g)
        ELSE LoopHead([g EXCEPT !.hosts = {host}])

\* ------------------------------------------------------------------------
\* handlers that run at the same time

\* net/http runs every handler in a goroutine of its own; two requests that
\* an instance is handling at the same time are told apart by these names
Requests == {"a", "b"}

NoDir == ""

\* a scratch directory with one name for every request
MkdirTemp_SameName(q) == "coverage"

\* os.MkdirTemp("", "coverage") makes a directory that did not exist before
\* and gives it a name no other call gets: it is named after the request
\* whose handler made it.
MkdirTemp(q) == q

\* A running handler: its frame, whose hosts is the map that its loop
\* function made, and the directory that its writeBinCoverage returned.
NoOp == [frame |-> NewFrame("none", NoHost, NoHost), tmpDir |-> NoDir]

\* ------------------------------------------------------------------------
\* calculateTotalCoverage

\* A text is a sequence of characters. Filler stands for a run of
\* MaxScanTokenSize letters x: the string functions treat such a run as they
\* treat one letter, only its length differs.
MaxScanTokenSize == 65536
Filler == "x..."

RECURSIVE ByteLen(_)
ByteLen(s) ==
    IF s = <<>> THEN 0
    ELSE (IF Head(s) = Filler THEN MaxScanTokenSize ELSE 1) + ByteLen(Tail(s))

marker == <<"c", "o", "v", "e", "r", "a", "g", "e", ":">>

\* strings.Index counted from 1: where sub first occurs in s, 0 if nowhere
RECURSIVE IndexFrom(_, _, _)
IndexFrom(s, sub, i) ==
    IF i + Len(sub) - 1 > Len(s) THEN 0
    ELSE IF SubSeq(s, i, i + Len(sub) - 1) = sub THEN i
    ELSE IndexFrom(s, sub, i + 1)

Index(s, sub) == IndexFrom(s, sub, 1)

Contains(s, sub) == Index(s, sub) # 0

\* strings.Split for a separator that is not empty
RECURSIVE Split(_, _)
Split(s, sep) ==
    LET i == Index(s, sep) IN
    IF i = 0 THEN <<s>>
    ELSE <<SubSeq(s, 1, i - 1)>> \o Split(SubSeq(s, i + Len(sep), Len(s)), sep)

Space == {" ", "\t", "\n", "\r"}

RECURSIVE TrimLeft(_)
TrimLeft(s) ==
    IF s # <<>> /\ Head(s) \in Space THEN TrimLeft(Tail(s)) ELSE s

RECURSIVE TrimRight(_)
TrimRight(s) ==
    IF s # <<>> /\ s[Len(s)] \in Space
      THEN TrimRight(SubSeq(s, 1, Len(s) - 1)) ELSE s

TrimSpace(s) == TrimRight(TrimLeft(s))

Digits == <<"0", "1", "2", "3", "4", "5", "6", "7", "8", "9">>

AllDigits(s) == \A i \in 1..Len(s) : \E d \in 1..10 : s[i] = Digits[d]

RECURSIVE Decimal(_)
Decimal(s) ==
    IF s = <<>> THEN 0
    ELSE 10 * Decimal(SubSeq(s, 1, Len(s) - 1))
         + (CHOOSE d \in 0..9 : Digits[d + 1] = s[Len(s)])

RECURSIVE Pow10(_)
Pow10(k) == IF k = 0 THEN 1 ELSE 10 * Pow10(k - 1)

\* strconv.ParseFloat(s, 64) for decimal notation: a sign, digits, a point
\* and digits, at least one digit. The value is the fraction num / den.
\* The other notations it reads (exponent, hexadecimal, Inf, NaN) are not
\* among the inputs. ok = FALSE is a returned error.
ParseFloat(s) ==
    LET signed == s # <<>> /\ Head(s) \in {"+", "-"}
        u == IF signed THEN Tail(s) ELSE s
        p == Index(u, <<".">>)
        int == IF p = 0 THEN u ELSE SubSeq(u, 1, p - 1)
        frac == IF p = 0 THEN <<>> ELSE SubSeq(u, p + 1, Len(u))
        ok == AllDigits(int) /\ AllDigits(frac) /\ int \o frac # <<>>
        mag == IF ok THEN Decimal(int \o frac) ELSE 0
    IN  [ok |-> ok,
         num |-> IF signed /\ Head(s) = "-" THEN 0 - mag ELSE mag,
         den |-> IF ok THEN Pow10(Len(frac)) ELSE 1]

\* float64 values are kept as exact fractions
Zero == [num |-> 0, den |-> 1]

Add(a, b) == [num |-> a.num * b.den + b.num * a.den, den |-> a.den * b.den]

Quotient(a, n) == [num |-> a.num, den |-> a.den * n]

\* the inner loop: the tokens that are not empty when trimmed
RECURSIVE CountPackages(_)
CountPackages(packages) ==
    IF packages = <<>> THEN 0
    ELSE (IF TrimSpace(Head(packages)) # <<>> THEN 1 ELSE 0)
         + CountPackages(Tail(packages))

\* a scanning loop that counts a line with a marker as one package
ScanBody_CountLines(rep, line) ==
    IF ~Contains(line, marker) THEN rep
    ELSE LET parts == Split(line, marker) IN
        IF Len(parts) # 2 THEN rep
        ELSE LET coverage ==
                   ParseFloat(TrimSpace(Split(TrimSpace(parts[2]), <<"%">>)[1]))
             IN  IF ~coverage.ok
                   THEN [rep EXCEPT !.pc = "done", !.err = "parse"]
                   ELSE [rep EXCEPT !.packageCount = @ + 1,
                                    !.totalCoverage = Add(@, coverage)]

\* a scanning loop that goes on after a percentage it cannot parse
ScanBody_SkipBadValue(rep, line) ==
    IF ~Contains(line, marker) THEN rep
    ELSE LET parts == Split(line, marker) IN
        IF Len(parts) # 2 THEN rep
        ELSE LET coverage ==
                   ParseFloat(TrimSpace(Split(TrimSpace(parts[2]), <<"%">>)[1]))
             IN  IF ~coverage.ok THEN rep
                   ELSE [rep EXCEPT
                           !.packageCount =
                               @ + CountPackages(Split(parts[1], <<"\t">>)),
                           !.totalCoverage = Add(@, coverage)]

\* the body of the scanning loop for one line
ScanBody(rep, line) ==
    IF ~Contains(line, marker) THEN rep
    ELSE LET parts == Split(line, marker) IN
        IF Len(parts) # 2 THEN rep
        ELSE LET coveragePart == TrimSpace(parts[2])
                 coverageValue == TrimSpace(Split(coveragePart, <<"%">>)[1])
                 coverage == ParseFloat(coverageValue)
                 packages == Split(parts[1], <<"\t">>)
             IN  IF ~coverage.ok
                   THEN [rep EXCEPT !.pc = "done", !.err = "parse"]
                   ELSE [rep EXCEPT
                           !.packageCount = @ + CountPackages(packages),
                           !.totalCoverage = Add(@, coverage)]

\* calculateTotalCoverage(output) before its first line
StartReport(output) ==
    [pc |-> "scan", output |-> output, rest |-> output,
     totalCoverage |-> Zero, packageCount |-> 0,
     err |-> "none", averageCoverage |-> Zero]

NoReport == [StartReport(<<>>) EXCEPT !.pc = "none"]

\* the report texts: up to MaxLines lines, each a prefix of tab-separated
\* names followed by nothing, by a marker with a percentage, by a marker
\* with something else or by two markers
MaxLines == 2

Prefixes ==
    { <<>>,
      <<"\t", "a", "\t", "\t">>,
      <<"a", "\t", " ", "b", "\t">>,
      <<" ", "\t">>,
      <<Filler, "\t">> }

Suffixes ==
    { <<>>,
      marker \o <<" ", "5", "0", ".", "0", "%">>,
      marker \o <<" ", "1", "0", "0", ".", "0", "%", " ", "o", "f">>,
      marker \o <<" ", "[", "n", "o", "]">>,
      marker \o <<" ", "5", "0", ".", "0", "%", " ">>
             \o marker \o <<" ", "5", "0", ".", "0", "%">>,
      marker \o <<" ", "[", "n", "o", "]", " ">>
             \o marker \o <<" ", "5", "0", ".", "0", "%">> }

Lines == {p \o q : p \in Prefixes, q \in Suffixes}

RECURSIVE Join(_)
Join(ls) ==
    IF ls = <<>> THEN <<>> ELSE Head(ls) \o <<"\n">> \o Join(Tail(ls))

Texts == UNION {{Join(ls) : ls \in [1..n -> Lines]} : n \in 0..MaxLines}

\* ------------------------------------------------------------------------
\* actions

Idle == stack = <<>>

Init ==
    /\ numberPods = 1
    /\ urlOK = TRUE
    /\ stack = <<>>
    /\ cleared = {}
    /\ orphans = FALSE
    /\ sent = NoResponse
    /\ report = NoReport
    /\ running = [q \in Requests |-> NoOp]
    /\ body = "none"

\* SetNumberPods(n), called before traffic starts
SetNumberPods(n) ==
    /\ Idle
    /\ numberPods' = n
    /\ sent' = NoResponse
    /\ UNCHANGED <<urlOK, stack, cleared, orphans, report, running, body>>

\* GET /debug/coverage/ or /debug/coverage/html from an external client;
\* neither handler reads the x-hostname of its request.
ArriveAggregate(kind, host, wb, u) ==
    /\ Idle
    /\ UNCHANGED <<numberPods, report, running, body>>
    /\ urlOK' = u
    /\ orphans' = FALSE
    /\ cleared' = {}
    /\ stack' = <<EnterAggregate(kind, host, NoHost, wb)'>>
    /\ sent' = NoResponse

\* GET /debug/coverage/reset from an external client
ArriveReset(host, hdr, cc, u) ==
    /\ Idle
    /\ UNCHANGED <<numberPods, report, running, body>>
    /\ urlOK' = u
    /\ orphans' = FALSE
    /\ LET f == EnterReset(host, hdr, cc)' IN
        /\ stack' = <<f>>
        /\ cleared' = IF f.didClear THEN {host} ELSE {}
    /\ sent' = NoResponse

\* GET /debug/coverage/profile from an external client
ArriveProfile(host, hdr, io) ==
    /\ Idle
    /\ sent' = Response(CovBinProfileHandler(host, hdr, io))
    /\ cleared' = {}
    /\ orphans' = FALSE
    /\ UNCHANGED <<numberPods, urlOK, stack, report, running, body>>

\* requestOtherProfile: one request through the entry URL, routed to replica
\* r, whose CovBinProfileHandler answers it after d seconds
CollectPoll(r, d, io, sio) ==
    /\ ~Idle
    /\ Top.kind \in {"percent", "html"}
    /\ Top.pc = "request"
    /\ LET resp == CovBinProfileHandler(r, Top.host, io) IN
        /\ stack' = SetTop(CollectResponse(Top, resp, d, sio))
        /\ sent' = Response(resp)
    /\ UNCHANGED <<numberPods, urlOK, cleared, orphans, report, running, body>>

\* requestOtherProfile: http.DefaultClient.Do fails
CollectFail(d) ==
    /\ ~Idle
    /\ Top.kind \in {"percent", "html"}
    /\ Top.pc = "request"
    /\ stack' = SetTop(TransportError(Failed(Top), d))
    /\ sent' = NoResponse
    /\ UNCHANGED <<numberPods, urlOK, cleared, orphans, report, running, body>>

\* resetOtherProfile: one request through the entry URL, routed to replica
\* r. A CovResetHandler that returns without a request of its own (the guard,
\* a failed ClearCounters, a loop that ends at once) answers after d seconds
\* unless the answer is lost; one that has to ask its peers keeps the caller
\* waiting.
BroadcastPoll(r, cc, d, lost) ==
    /\ ~Idle
    /\ Alive
    /\ Top.kind = "reset"
    /\ Top.pc = "request"
    /\ LET f == EnterReset(r, Top.host, cc)
           caller == [Top EXCEPT !.didRequest = TRUE]
       IN  /\ cleared' = IF f.didClear THEN cleared \cup {r} ELSE cleared
           /\ IF f.pc = "request"
                THEN /\ d = 0 /\ ~lost
                     /\ stack' = Append(SetTop([caller EXCEPT !.pc = "waiting"]), f)
                     /\ sent' = NoResponse
                ELSE LET g == IF f.pc = "returned"
                                THEN IF f.err # "none"
                                       THEN Finish(WriteHeader(f, 500))
                                       ELSE Finish(WriteBody(f, "reset"))
                                ELSE f
                     IN  /\ stack' = SetTop(IF lost
                                              THEN TransportError(Failed(caller), d)
                                              ELSE BroadcastResponse(caller, g, d))
                         /\ sent' = Response(g)
    /\ UNCHANGED <<numberPods, urlOK, orphans, report, running, body>>

\* resetOtherProfile: http.DefaultClient.Do fails before a replica is reached
BroadcastFail(d) ==
    /\ ~Idle
    /\ Alive
    /\ Top.kind = "reset"
    /\ Top.pc = "request"
    /\ stack' = SetTop(TransportError(Failed(Top), d))
    /\ sent' = NoResponse
    /\ UNCHANGED <<numberPods, urlOK, cleared, orphans, report, running, body>>

\* CovResetHandler after resetOtherProfile returned
ResetFinish ==
    /\ ~Idle
    /\ Alive
    /\ Top.kind = "reset"
    /\ Top.pc = "returned"
    /\ stack' = SetTop(IF Top.err # "none"
                         THEN Finish(WriteHeader(Top, 500))
                         ELSE Finish(WriteBody(Top, "reset")))
    /\ sent' = NoResponse
    /\ UNCHANGED <<numberPods, urlOK, cleared, orphans, report, running, body>>

\* A nested CovResetHandler returns to the resetOtherProfile that called it.
\* The call took at least as long as the handler ran; lost tells whether the
\* answer got through.
ResetReturn(d, lost) ==
    /\ Len(stack) > 1
    /\ Alive
    /\ Top.pc = "done"
    /\ d >= Top.elapsed
    /\ LET callee == Top
           caller == stack[Len(stack) - 1]
           rest == SubSeq(stack, 1, Len(stack) - 2)
       IN  /\ stack' = Append(rest,
                 IF lost THEN TransportError(Failed(caller), d)
                         ELSE BroadcastResponse(caller, callee, d))
           /\ sent' = Response(callee)
    /\ UNCHANGED <<numberPods, urlOK, cleared, orphans, report, running, body>>

\* The context of a request expires while the nested CovResetHandler is
\* running: http.DefaultClient.Do fails after reqTimeout and the handler
\* goes on without a client.
ResetAbandon ==
    /\ Len(stack) > 1
    /\ ~Alive
    /\ LET caller == stack[Len(stack) - 1]
           rest == SubSeq(stack, 1, Len(stack) - 2)
       IN  stack' = Append(rest, TransportError(Failed(caller), reqTimeout))
    /\ orphans' = (orphans \/ Top.pc # "done")
    /\ sent' = NoResponse
    /\ UNCHANGED <<numberPods, urlOK, cleared, report, running, body>>

\* a handler without a client resets the replica its next request reaches
OrphanReset(r) ==
    /\ orphans
    /\ cleared' = cleared \cup {r}
    /\ sent' = NoResponse
    /\ UNCHANGED <<numberPods, urlOK, stack, orphans, report, running, body>>

\* CovPercentHandler and CovHTMLHandler after requestOtherProfile returned:
\* mergeProfiles. CovPercentHandler reports an error and goes on.
Merge(ok) ==
    /\ ~Idle
    /\ Top.kind \in {"percent", "html"}
    /\ Top.pc = "returned"
    /\ LET f == IF Top.err # "none" THEN WriteHeader(Top, 500) ELSE Top
           g == [f EXCEPT !.didMerge = TRUE, !.pc = "merged"]
       IN  stack' = SetTop(
             IF Top.kind = "html"
               THEN IF Top.err # "none" THEN Finish(f)
                    ELSE IF ~ok THEN Finish(WriteHeader(g, 500))
                    ELSE g
               ELSE IF ~ok THEN WriteHeader(g, 500) ELSE g)
    /\ sent' = NoResponse
    /\ UNCHANGED <<numberPods, urlOK, cleared, orphans, report, running, body>>

\* CovPercentHandler: go tool covdata percent, then calculateTotalCoverage
Percent(ok, parsed) ==
    /\ ~Idle
    /\ Top.kind = "percent"
    /\ Top.pc = "merged"
    /\ LET f == [Top EXCEPT !.didPercent = TRUE] IN
       stack' = SetTop(IF ok /\ parsed
                         THEN Finish(WriteBody(f, "total"))
                         ELSE Finish(WriteHeader(f, 500)))
    /\ sent' = NoResponse
    /\ UNCHANGED <<numberPods, urlOK, cleared, orphans, report, running, body>>

\* CovHTMLHandler: covdata textfmt, cover -html, os.ReadFile
Render(ok) ==
    /\ ~Idle
    /\ Top.kind = "html"
    /\ Top.pc = "merged"
    /\ stack' = SetTop(IF ok THEN Finish(WriteBody(Top, "html"))
                             ELSE Finish(WriteHeader(Top, 500)))
    /\ sent' = NoResponse
    /\ UNCHANGED <<numberPods, urlOK, cleared, orphans, report, running, body>>

\* the handler of the external request returns
Complete ==
    /\ Len(stack) = 1
    /\ Top.pc = "done"
    /\ stack' = <<>>
    /\ sent' = Response(Top)
    /\ UNCHANGED <<numberPods, urlOK, cleared, orphans, report, running, body>>

Next ==
    \/ \E n \in 0..MaxPods : SetNumberPods(n)
    \/ \E k \in {"percent", "html"}, h \in Replicas, wb \in DumpOutcomes,
          u \in BOOLEAN : ArriveAggregate(k, h, wb, u)
    \/ \E h \in Replicas, x \in Idents, cc \in BOOLEAN, u \in BOOLEAN :
          ArriveReset(h, x, cc, u)
    \/ \E h \in Replicas, x \in Idents, io \in ProfileOutcomes :
          ArriveProfile(h, x, io)
    \/ \E r \in Replicas, d \in Durations, io \in ProfileOutcomes,
          sio \in StoreOutcomes : CollectPoll(r, d, io, sio)
    \/ \E d \in Durations : CollectFail(d)
    \/ \E r \in Replicas, cc \in BOOLEAN, d \in Durations, lost \in BOOLEAN :
          BroadcastPoll(r, cc, d, lost)
    \/ \E d \in Durations : BroadcastFail(d)
    \/ ResetFinish
    \/ \E d \in Durations, lost \in BOOLEAN : ResetReturn(d, lost)
    \/ ResetAbandon
    \/ \E r \in Replicas : OrphanReset(r)
    \/ \E ok \in BOOLEAN : Merge(ok)
    \/ \E ok \in BOOLEAN, parsed \in BOOLEAN : Percent(ok, parsed)
    \/ \E ok \in BOOLEAN : Render(ok)
    \/ Complete

Spec == Init /\ [][Next]_vars

\* The same program when nothing around it fails: every file operation and
\* external tool succeeds, the entry URL parses and no connection breaks. A
\* request can still run into the timeout of its context.
NextNoFault ==
    \/ \E n \in 0..MaxPods : SetNumberPods(n)
    \/ \E k \in {"percent", "html"}, h \in Replicas :
          ArriveAggregate(k, h, "ok", TRUE)
    \/ \E h \in Replicas, x \in Idents : ArriveReset(h, x, TRUE, TRUE)
    \/ \E h \in Replicas, x \in Idents : ArriveProfile(h, x, "ok")
    \/ \E r \in Replicas, d \in Durations : CollectPoll(r, d, "ok", "ok")
    \/ \E r \in Replicas, d \in Durations : BroadcastPoll(r, TRUE, d, FALSE)
    \/ ResetFinish
    \/ \E d \in Durations : ResetReturn(d, FALSE)
    \/ ResetAbandon
    \/ \E r \in Replicas : OrphanReset(r)
    \/ Merge(TRUE)
    \/ Percent(TRUE, TRUE)
    \/ Render(TRUE)
    \/ Complete

SpecNoFault == Init /\ [][NextNoFault]_vars

\* The same program when only the network fails: a request may get no
\* answer, an answer may get lost and the entry URL may not parse, while
\* every file operation and external tool succeeds.
NextNet ==
    \/ \E n \in 0..MaxPods : SetNumberPods(n)
    \/ \E k \in {"percent", "html"}, h \in Replicas, u \in BOOLEAN :
          ArriveAggregate(k, h, "ok", u)
    \/ \E h \in Replicas, x \in Idents, u \in BOOLEAN :
          ArriveReset(h, x, TRUE, u)
    \/ \E h \in Replicas, x \in Idents : ArriveProfile(h, x, "ok")
    \/ \E r \in Replicas, d \in Durations : CollectPoll(r, d, "ok", "ok")
    \/ \E d \in Durations : CollectFail(d)
    \/ \E r \in Replicas, d \in Durations, lost \in BOOLEAN :
          BroadcastPoll(r, TRUE, d, lost)
    \/ \E d \in Durations : BroadcastFail(d)
    \/ ResetFinish
    \/ \E d \in Durations, lost \in BOOLEAN : ResetReturn(d, lost)
    \/ ResetAbandon
    \/ \E r \in Replicas : OrphanReset(r)
    \/ Merge(TRUE)
    \/ Percent(TRUE, TRUE)
    \/ Render(TRUE)
    \/ Complete

\* Time passes and handlers run. A loop that keeps asking does not get all
\* its answers in no time: again and again a request takes its allotment.
\* A handler that can take its next step takes it.
TimePasses ==
    \/ \E r \in Replicas : CollectPoll(r, reqTimeout, "ok", "ok")
    \/ CollectFail(reqTimeout)
    \/ \E r \in Replicas, lost \in BOOLEAN :
          BroadcastPoll(r, TRUE, reqTimeout, lost)
    \/ BroadcastFail(reqTimeout)

HandlerRuns ==
    \/ ResetFinish
    \/ \E d \in Durations, lost \in BOOLEAN : ResetReturn(d, lost)
    \/ ResetAbandon
    \/ Merge(TRUE)
    \/ Percent(TRUE, TRUE)
    \/ Render(TRUE)
    \/ Complete

SpecNetFair ==
    /\ Init /\ [][NextNet]_vars
    /\ SF_vars(TimePasses)
    /\ WF_vars(HandlerRuns)

\* calculateTotalCoverage on a report text, apart from the handlers
InitAggregate ==
    /\ numberPods = 1
    /\ urlOK = TRUE
    /\ stack = <<>>
    /\ cleared = {}
    /\ orphans = FALSE
    /\ sent = NoResponse
    /\ report \in {StartReport(t) : t \in Texts}
    /\ running = [q \in Requests |-> NoOp]
    /\ body = "none"

\* scanner.Scan returns a line (bufio.ScanLines: up to the next newline,
\* without a trailing carriage return) and the loop body runs on it. A line
\* of MaxScanTokenSize bytes or more ends the loop with scanner.Err set.
ScanLine ==
    /\ report.pc = "scan"
    /\ report.rest # <<>>
    /\ LET i == Index(report.rest, <<"\n">>)
           raw == IF i = 0 THEN report.rest ELSE SubSeq(report.rest, 1, i - 1)
           line == IF raw # <<>> /\ raw[Len(raw)] = "\r"
                     THEN SubSeq(raw, 1, Len(raw) - 1) ELSE raw
           after == IF i = 0 THEN <<>>
                    ELSE SubSeq(report.rest, i + 1, Len(report.rest))
       IN  report' = IF ByteLen(raw) >= MaxScanTokenSize
                       THEN [report EXCEPT !.pc = "done", !.err = "read"]
                       ELSE ScanBody([report EXCEPT !.rest = after], line)
    /\ UNCHANGED <<numberPods, urlOK, stack, cleared, orphans, sent, running, body>>

\* scanner.Scan returns false at the end of the text: the function returns
ScanEnd ==
    /\ report.pc = "scan"
    /\ report.rest = <<>>
    /\ report' =
         IF report.packageCount = 0
           THEN [report EXCEPT !.pc = "done", !.err = "nodata"]
           ELSE [report EXCEPT !.pc = "done",
                   !.averageCoverage =
                       Quotient(report.totalCoverage, report.packageCount)]
    /\ UNCHANGED <<numberPods, urlOK, stack, cleared, orphans, sent, running, body>>

NextAggregate ==
    \/ ScanLine
    \/ ScanEnd

SpecAggregate == InitAggregate /\ [][NextAggregate]_vars

\* ------------------------------------------------------------------------
\* Several requests handled at the same time by one instance. The handlers
\* interleave at their requests: a step is the arrival of a request, one
\* answer or failure that a loop receives, or the end of a handler. What a
\* handler does after its loop is in the actions above.

\* replica host is the instance that handles the running requests
Instance(host) ==
    \A o \in Requests : running[o] # NoOp => running[o].frame.host = host

InitConcurrent ==
    /\ numberPods \in 1..MaxPods
    /\ urlOK = TRUE
    /\ stack = <<>>
    /\ cleared = {}
    /\ orphans = FALSE
    /\ sent = NoResponse
    /\ report = NoReport
    /\ running = [q \in Requests |-> NoOp]
    /\ body = "none"

\* request q arrives at replica host: CovPercentHandler or CovHTMLHandler
\* up to the first request of requestOtherProfile
AcceptAggregate(q, kind, host, wb) ==
    /\ running[q] = NoOp
    /\ Instance(host)
    /\ LET f == EnterAggregate(kind, host, NoHost, wb) IN
        running' = [running EXCEPT ![q] =
            [frame |-> f,
             tmpDir |-> IF f.scratch = 1 THEN MkdirTemp(q) ELSE NoDir]]
    /\ UNCHANGED <<numberPods, urlOK, stack, cleared, orphans, sent, report, body>>

\* request q arrives at replica host: CovResetHandler up to the first
\* request of resetOtherProfile
AcceptReset(q, host, hdr, cc) ==
    /\ running[q] = NoOp
    /\ Instance(host)
    /\ running' = [running EXCEPT ![q] =
            [frame |-> EnterReset(host, hdr, cc), tmpDir |-> NoDir]]
    /\ UNCHANGED <<numberPods, urlOK, stack, cleared, orphans, sent, report, body>>

\* the loop of request q receives the answer of replica r after d seconds.
\* The CovResetHandler of r answers after its own broadcast, which is not
\* followed here: however it ends (ok tells), its answer has no x-hostname.
Receive(q, r, d, ok) ==
    /\ running[q].frame.pc = "request"
    /\ LET f == running[q].frame
           g == EnterReset(r, f.host, ok)
           resp == IF f.kind = "reset"
                     THEN IF g.pc = "done" THEN g
                          ELSE IF ok THEN Finish(WriteBody(g, "reset"))
                          ELSE Finish(WriteHeader(g, 500))
                     ELSE CovBinProfileHandler(r, f.host, IF ok THEN "ok" ELSE "meta")
       IN  running' = [running EXCEPT ![q].frame =
               IF f.kind = "reset"
                 THEN BroadcastResponse([f EXCEPT !.didRequest = TRUE], resp, d)
                 ELSE CollectResponse(f, resp, d, "ok")]
    /\ UNCHANGED <<numberPods, urlOK, stack, cleared, orphans, sent, report, body>>

\* http.DefaultClient.Do fails in the loop of request q
ReceiveFail(q, d) ==
    /\ running[q].frame.pc = "request"
    /\ running' = [running EXCEPT ![q].frame = TransportError(Failed(@), d)]
    /\ UNCHANGED <<numberPods, urlOK, stack, cleared, orphans, sent, report, body>>

\* the handler of request q returns
Leave(q) ==
    /\ running[q].frame.pc \in {"returned", "done"}
    /\ running' = [running EXCEPT ![q] = NoOp]
    /\ UNCHANGED <<numberPods, urlOK, stack, cleared, orphans, sent, report, body>>

NextConcurrent ==
    \/ \E q \in Requests, kind \in {"percent", "html"}, host \in Replicas,
          wb \in {"ok", "mkdir"} :
          AcceptAggregate(q, kind, host, wb)
    \/ \E q \in Requests, host \in Replicas, hdr \in Idents, cc \in BOOLEAN :
          AcceptReset(q, host, hdr, cc)
    \/ \E q \in Requests, r \in Replicas, d \in Durations, ok \in BOOLEAN :
          Receive(q, r, d, ok)
    \/ \E q \in Requests, d \in Durations : ReceiveFail(q, d)
    \/ \E q \in Requests : Leave(q)

SpecConcurrent == InitConcurrent /\ [][NextConcurrent]_vars

\* ------------------------------------------------------------------------
\* The response bodies of one handler, followed from answer to answer with
\* every way its loop body can end.

\* What replica r answers to a request of the loop of f: the
\* CovBinProfileHandler of r, where io names the step that fails, or the
\* CovResetHandler of r at the end of its own broadcast, which is not
\* followed here (ok tells how it ends).
Answer(f, r, io, ok) ==
    IF f.kind = "reset"
      THEN LET g == EnterReset(r, f.host, ok) IN
           IF g.pc = "done" THEN g
           ELSE IF ok THEN Finish(WriteBody(g, "reset"))
           ELSE Finish(WriteHeader(g, 500))
      ELSE CovBinProfileHandler(r, f.host, io)

\* the loop of request q receives the answer of replica r after d seconds
\* and runs its body on it
TakeAnswer(q, r, d, io, sio, ok) ==
    /\ running[q].frame.pc = "request"
    /\ LET f == running[q].frame
           resp == Answer(f, r, io, ok)
       IN  IF f.kind = "reset"
             THEN /\ running' = [running EXCEPT ![q].frame =
                         BroadcastResponse([f EXCEPT !.didRequest = TRUE], resp, d)]
                  /\ body' = IF BroadcastCloses(f, resp) THEN "closed" ELSE "open"
             ELSE /\ running' = [running EXCEPT ![q].frame =
                         CollectResponse(f, resp, d, sio)]
                  /\ body' = IF CollectCloses(f, resp, sio) THEN "closed" ELSE "open"
    /\ UNCHANGED <<numberPods, urlOK, stack, cleared, orphans, sent, report>>

\* the one request that is followed
Followed == "a"

NextBodies ==
    \/ \E kind \in {"percent", "html"}, host \in Replicas, wb \in DumpOutcomes :
          AcceptAggregate(Followed, kind, host, wb)
    \/ \E host \in Replicas, hdr \in Idents, cc \in BOOLEAN :
          AcceptReset(Followed, host, hdr, cc)
    \/ \E r \in Replicas, d \in Durations, io \in ProfileOutcomes,
          sio \in StoreOutcomes, ok \in BOOLEAN :
          TakeAnswer(Followed, r, d, io, sio, ok)
    \/ \E d \in Durations : ReceiveFail(Followed, d)
    \/ Leave(Followed)

SpecBodies == InitConcurrent /\ [][NextBodies]_vars

\* ------------------------------------------------------------------------
\* properties

\* the handlers that are running in both states of a step
SameRuns ==
    1..(IF Len(stack) < Len(stack') THEN Len(stack) ELSE Len(stack'))

\* this step hands the answer sent' to the loop of the innermost handler
PollAnswered ==
    /\ stack' # <<>>
    /\ Len(stack') <= Len(stack)
    /\ sent' # NoResponse
    /\ ~stack'[Len(stack')].didFail

\* the loop of frame f has returned to its handler
LoopReturned(f) ==
    f.hosts # {} /\ f.pc \in {"returned", "merged", "done"}

SameScratch(f, g) ==
    g.subdirs = f.subdirs /\ g.artifacts = f.artifacts /\ g.stray = f.stray

C2_Step ==
    /\ \A i \in SameRuns :
          LET f == stack[i]
              g == stack'[i]
          IN  /\ g.hosts # f.hosts
                   => /\ i = Len(stack')
                      /\ PollAnswered
                      /\ sent'.hostHdr \notin f.hosts
                      /\ g.hosts = f.hosts \cup {sent'.hostHdr}
              /\ ~SameScratch(f, g) => g.hosts # f.hosts
              /\ (i = Len(stack') /\ PollAnswered /\ sent'.hostHdr \in f.hosts)
                   => g.hosts = f.hosts /\ SameScratch(f, g)
    /\ \A i \in 1..Len(stack'), id \in Idents :
          stack'[i].subdirs[id] <= 1 /\ stack'[i].artifacts[id] <= 1

\* C2: an answer whose x-hostname is already in SeenHosts changes neither
\* SeenHosts nor the scratch directory; SeenHosts grows only by the
\* x-hostname of an answer that was not in it, the scratch directory changes
\* only when SeenHosts grows, and no identity gets a second subdirectory or
\* artifact, whatever replicas the requests are routed to.
C2_Dedup == [][C2_Step]_vars

\* a collector that goes on after a second answer of a replica it has stored
C2_Witness ==
    /\ stack # <<>>
    /\ Top.kind \in {"percent", "html"}
    /\ Top.pc = "request"
    /\ Top.elapsed >= 2 * reqTimeout
    /\ sent.kind = "profile"
    /\ sent.hostHdr \in Top.hosts \ {Top.host, NoHost}
    /\ Top.artifacts[sent.hostHdr] = 1

C3_Step ==
    (PollAnswered /\ sent'.kind \in {"profile", "reset"} /\ sent'.hdr = sent'.host)
    => LET f == stack[Len(stack')]
           g == stack'[Len(stack')]
       IN  /\ g.hosts = f.hosts
           /\ SameScratch(f, g)
           /\ g.err \in {"none", "timeout"}
           /\ g.pc = "request" \/ (g.pc = "returned" /\ g.err = "timeout")

\* C3: when a request of the loop is routed back to the instance that sent
\* it, SeenHosts and the scratch directory stay as they are, the operation
\* does not fail and the loop asks again (unless its budget is spent).
C3_Claim == [][C3_Step]_vars

C4_Step ==
    \A i \in SameRuns :
        LET f == stack[i]
            g == stack'[i]
        IN  (f.kind = "reset" /\ numberPods >= 2
                /\ f.pc = "request" /\ ~f.didRequest
                /\ g.pc = "returned" /\ g.err = "none")
            => /\ numberPods = 2
               /\ sent'.kind = "reset"
               /\ sent'.host # f.host

\* C4: resetOtherProfile returns success only after N-1 distinct other
\* replicas have replied. Stated for the first request of a run: one answer
\* can end the run with success only when N = 2 and another replica gave it.
C4_Claim == [][C4_Step]_vars

\* C5: every answer of the profile or the reset endpoint to a request of
\* the loop of another replica carries the responder's identity in
\* x-hostname, and the profile endpoint's the file name in x-filename.
C5_Claim ==
    (stack # <<>> /\ sent.kind \in {"profile", "reset"}
        /\ sent.hdr \in Replicas \ {sent.host})
    => /\ sent.hostHdr = sent.host
       /\ sent.kind = "profile" => sent.fileHdr = CounterFile

\* C6: with fewer replicas than N, a loop that saw no transport failure ends
\* with the timeout error, and not before the budget has passed.
C6_Claim ==
    numberPods > NumReplicas
    => \A i \in 1..Len(stack) :
          LET f == stack[i] IN
          (LoopReturned(f) /\ ~f.didFail)
          => f.err = "timeout" /\ f.elapsed > allReqTimeout

\* C7: once http.DefaultClient.Do has failed in a loop, the operation has
\* returned the transport error: the loop is at no further request, whatever
\* it had collected before.
C7_AbortOnTransport ==
    \A i \in 1..Len(stack) :
        stack[i].didFail
        => /\ stack[i].err = "transport"
           /\ stack[i].pc \in {"returned", "merged", "done"}

\* a collector that had stored a peer's artifact when a request failed
C7_Witness ==
    \E i \in 1..Len(stack) :
        /\ stack[i].didFail
        /\ stack[i].kind \in {"percent", "html"}
        /\ \E r \in Replicas \ {stack[i].host} :
              r \in stack[i].hosts /\ stack[i].artifacts[r] = 1

\* C8: the reset and the profile endpoint answer a request whose x-hostname
\* is the local identity with 200 and nothing else: no reset, no dump, no
\* scratch directory, no outbound request. With any other or no x-hostname
\* they take the normal path: the reset endpoint clears the counters (or
\* reports that it cannot) and then asks its peers whenever N >= 2, the
\* profile endpoint makes its scratch directory (or reports that it cannot)
\* and an answer with data comes from a dump.
C8_Guard ==
    sent.kind \in {"reset", "profile"}
    => IF sent.hdr = sent.host
         THEN /\ sent.status = 200
              /\ sent.body = "none"
              /\ ~sent.didClear /\ ~sent.didDump /\ ~sent.didMkdir
              /\ ~sent.didRequest
         ELSE IF sent.kind = "reset"
           THEN /\ sent.didClear \/ sent.status = 500
                /\ (sent.didClear /\ numberPods >= 2 /\ urlOK) => sent.didRequest
                /\ sent.body = "reset" => sent.didClear
           ELSE /\ sent.didMkdir \/ sent.status = 500
                /\ sent.body = "data" <=> (sent.didDump /\ sent.hostHdr = sent.host)
                /\ ~sent.didClear /\ ~sent.didRequest

\* a request of a loop that came back to its sender and met the guard
C8_Witness ==
    /\ stack # <<>>
    /\ sent.kind \in {"reset", "profile"}
    /\ sent.hdr = sent.host
    /\ sent.status = 200

\* C9: when requestOtherProfile fails with the timeout or a transport error
\* in CovPercentHandler, the handler answers 500 and stops: no merge, no
\* percent run, no "Total Average Coverage" body.
C9_Claim ==
    \A i \in 1..Len(stack) :
        LET f == stack[i] IN
        (f.kind = "percent" /\ f.err \in {"timeout", "transport"}
            /\ f.pc \in {"merged", "done"})
        => /\ f.status = 500
           /\ ~f.didMerge /\ ~f.didPercent
           /\ f.body # "total"

\* C10: when an external reset request (no x-hostname) is answered with the
\* confirmation, every replica of a deployment of N replicas has cleared its
\* counters since the request arrived.
C10_Claim ==
    (stack = <<>> /\ sent.kind = "reset" /\ sent.hdr = NoHost
        /\ sent.body = "reset" /\ numberPods = NumReplicas)
    => cleared = Replicas

\* ---- calculateTotalCoverage

\* the lines of a text
LinesOf(text) ==
    LET ls == Split(text, <<"\n">>) IN
    IF ls[Len(ls)] = <<>> THEN SubSeq(ls, 1, Len(ls) - 1) ELSE ls

\* the lines that contain the marker, and those that contain it once
MarkerLines(text) ==
    SelectSeq(LinesOf(text), LAMBDA l : Contains(l, marker))

SingleMarkerLines(text) ==
    SelectSeq(LinesOf(text), LAMBDA l : Len(Split(l, marker)) = 2)

\* of a line with a marker: the number between the marker and the next %,
\* and the units before the marker
PercentOf(line) ==
    LET after == SubSeq(line, Index(line, marker) + Len(marker), Len(line))
    IN  ParseFloat(TrimSpace(Split(TrimSpace(after), <<"%">>)[1]))

UnitsOf(line) ==
    CountPackages(Split(SubSeq(line, 1, Index(line, marker) - 1), <<"\t">>))

RECURSIVE SumPercent(_)
SumPercent(ls) ==
    IF ls = <<>> THEN Zero ELSE Add(PercentOf(Head(ls)), SumPercent(Tail(ls)))

RECURSIVE SumUnits(_)
SumUnits(ls) ==
    IF ls = <<>> THEN 0 ELSE UnitsOf(Head(ls)) + SumUnits(Tail(ls))

AllNumeric(ls) == \A i \in 1..Len(ls) : PercentOf(ls[i]).ok

NoLongLine(text) ==
    \A i \in 1..Len(LinesOf(text)) : ByteLen(LinesOf(text)[i]) < MaxScanTokenSize

Equal(a, b) == a.num * b.den = b.num * a.den

AtMost(a, b) == a.num * b.den <= b.num * a.den

Returns(ls) ==
    /\ report.err = "none"
    /\ Equal(report.averageCoverage, Quotient(SumPercent(ls), SumUnits(ls)))

\* C11 as stated: for a text whose lines with the marker all carry a number
\* and hold at least one unit, calculateTotalCoverage returns, without an
\* error, the sum of the percentages of these lines divided by the number
\* of their units.
C11_Claim ==
    LET ls == MarkerLines(report.output) IN
    (report.pc = "done" /\ AllNumeric(ls) /\ SumUnits(ls) >= 1) => Returns(ls)

\* C11: for a text without a line of MaxScanTokenSize bytes or more, whose
\* lines with exactly one marker all carry a number and hold at least one
\* unit, calculateTotalCoverage returns, without an error, the sum of the
\* percentages of the lines with exactly one marker divided by the number of
\* units before the marker on these lines.
C11_Amended ==
    LET ls == SingleMarkerLines(report.output) IN
    (report.pc = "done" /\ NoLongLine(report.output)
        /\ AllNumeric(ls) /\ SumUnits(ls) >= 1)
    => Returns(ls)

\* two lines with three units and the percentages 50 and 100 give 50
C11_Witness ==
    /\ report.pc = "done"
    /\ report.err = "none"
    /\ Len(SingleMarkerLines(report.output)) = 2
    /\ report.packageCount = 3
    /\ Equal(report.totalCoverage, [num |-> 150, den |-> 1])
    /\ Equal(report.averageCoverage, [num |-> 50, den |-> 1])

NoPercentage == Equal(report.averageCoverage, Zero)

\* C12 as stated: calculateTotalCoverage returns the parse error when a
\* line with the marker has a percentage that is no number, and else the
\* "no data" error when the lines with the marker hold no unit; it returns
\* no percentage then.
C12_Claim ==
    LET ls == MarkerLines(report.output) IN
    report.pc = "done"
    => /\ ~AllNumeric(ls) => report.err = "parse"
       /\ (AllNumeric(ls) /\ SumUnits(ls) = 0) => report.err = "nodata"
       /\ report.err # "none" => NoPercentage

\* C12: for a text without a line of MaxScanTokenSize bytes or more,
\* calculateTotalCoverage returns the parse error when a line with exactly
\* one marker has a percentage that is no number, and else the "no data"
\* error when the lines with exactly one marker hold no unit (so for a text
\* without a marker); with an error it returns no percentage.
C12_Amended ==
    LET ls == SingleMarkerLines(report.output) IN
    (report.pc = "done" /\ NoLongLine(report.output))
    => /\ ~AllNumeric(ls) => report.err = "parse"
       /\ (AllNumeric(ls) /\ SumUnits(ls) = 0) => report.err = "nodata"
       /\ report.err # "none" => NoPercentage

\* a parse error on the second line, after a line that was counted
C12_Witness ==
    /\ report.pc = "done"
    /\ report.err = "parse"
    /\ report.packageCount > 0
    /\ NoLongLine(report.output)
    /\ NoPercentage

\* C20: when calculateTotalCoverage returns without an error and every
\* percentage it parsed lies in [0, 100], the value it returns lies between
\* the smallest and the largest of them, so in [0, 100].
C20_Claim ==
    LET ls == SingleMarkerLines(report.output)
        Hundred == [num |-> 100, den |-> 1]
    IN  (report.pc = "done" /\ report.err = "none"
            /\ \A i \in 1..Len(ls) :
                  AtMost(Zero, PercentOf(ls[i])) /\ AtMost(PercentOf(ls[i]), Hundred))
        => /\ \E i \in 1..Len(ls) : AtMost(PercentOf(ls[i]), report.averageCoverage)
           /\ \E i \in 1..Len(ls) : AtMost(report.averageCoverage, PercentOf(ls[i]))
           /\ AtMost(Zero, report.averageCoverage)
           /\ AtMost(report.averageCoverage, Hundred)

\* C13: every answer of the profile endpoint is sent with the scratch
\* directory of its handler removed, after a dump that worked as after one
\* that failed at the metadata, at the counters or at reading the directory.
C13_Removed ==
    sent.kind = "profile" => sent.scratch = 0

\* the profile endpoint reports an error after it made its directory
C13_Witness ==
    /\ sent.kind = "profile"
    /\ sent.didMkdir
    /\ sent.status = 500
    /\ sent.scratch = 0

\* C17: after GET /debug/coverage/ or /debug/coverage/html was answered with
\* the total or the report, no scratch directory of the request exists.
C17_Claim ==
    (stack = <<>> /\ sent.kind \in {"percent", "html"}
        /\ sent.status = 200 /\ sent.body \in {"total", "html"})
    => sent.scratch = 0

\* C19: with numberPods <= 1 the loop of requestOtherProfile and of
\* resetOtherProfile returns success at once: no request is issued, no time
\* passes, SeenHosts is the local identity alone and nothing is written.
C19_NoPeers ==
    numberPods <= 1
    => \A i \in 1..Len(stack) :
          LET f == stack[i] IN
          f.hosts # {}
          => /\ f.hosts = {f.host}
             /\ f.pc \in {"returned", "merged", "done"}
             /\ f.err = "none"
             /\ ~f.didRequest /\ ~f.didFail
             /\ f.elapsed = 0
             /\ f.subdirs = ZeroCount /\ f.artifacts = ZeroCount /\ f.stray = 0

\* a loop that has returned where it began, under numberPods <= 1
C19_Witness ==
    /\ stack # <<>>
    /\ numberPods <= 1
    /\ Top.pc = "returned"
    /\ Top.hosts = {Top.host}
    /\ Top.err = "none"

\* the loop of the handler at depth i of the stack is running
Running(i) ==
    Len(stack) >= i /\ stack[i].pc \in {"request", "waiting"}

C16_Bounded ==
    \A i \in 1..Len(stack) :
        /\ Running(i) => stack[i].elapsed <= allReqTimeout
        /\ stack[i].elapsed <= allReqTimeout + reqTimeout

\* C16: a loop issues no request once more than allReqTimeout has passed,
\* it never runs longer than allReqTimeout + reqTimeout, and every request
\* that is being handled, so every loop that is running, comes to its end,
\* with success or with an error.
C16_Terminates ==
    /\ []C16_Bounded
    /\ (stack # <<>>) ~> (stack = <<>>)

\* a loop that spent its budget to the last second, asked once more and
\* returned the timeout error one request timeout later
C16_Witness ==
    /\ stack # <<>>
    /\ Top.pc = "returned"
    /\ Top.err = "timeout"
    /\ Top.elapsed = allReqTimeout + reqTimeout

\* C18: while one external reset request is handled, no replica runs two
\* handlers that both cleared the counters and started a broadcast: a
\* replica that a sibling's broadcast reaches does not make a replica that
\* is broadcasting for this reset do it again.
C18_Claim ==
    \A i, j \in 1..Len(stack) :
        (i < j /\ stack[i].kind = "reset" /\ stack[j].kind = "reset"
            /\ stack[i].didClear /\ stack[j].didClear
            /\ stack[i].hosts # {} /\ stack[j].pc = "request")
        => stack[i].host # stack[j].host

\* a deployment of NumReplicas replicas: one artifact of every other replica
OnePerPeer(host) ==
    [i \in Idents |-> IF i \in Replicas \ {host} THEN 1 ELSE 0]

\* C14: with N the number of replicas, a loop whose requests were all
\* answered and that stayed within its budget ends in the same way however
\* its requests were routed: with success and N members in SeenHosts, and
\* requestOtherProfile with all replicas in SeenHosts and exactly one
\* artifact of every other replica.
C14_Claim ==
    numberPods = NumReplicas
    => \A i \in 1..Len(stack) :
          LET f == stack[i] IN
          (LoopReturned(f) /\ ~f.didFail /\ f.err # "timeout")
          => /\ f.err = "none"
             /\ Cardinality(f.hosts) = numberPods
             /\ f.kind \in {"percent", "html"}
                  => f.hosts = Replicas /\ f.artifacts = OnePerPeer(f.host)

\* the requests that write into the scratch directory of request q
Sharing(q) ==
    {o \in Requests : /\ running[o].tmpDir = running[q].tmpDir
                      /\ running[o].frame.host = running[q].frame.host}

\* what the scratch directory of request q holds, by writer
Contents(q) ==
    IF running[q].tmpDir = NoDir THEN {}
    ELSE {<<o, running[o].frame.subdirs, running[o].frame.artifacts>> :
             o \in Sharing(q)}

\* the loop of request p gets an answer or a failure in this step
Received(p) ==
    running[p].frame.pc = "request" /\ running'[p] # running[p]

C15_Step ==
    /\ numberPods' = numberPods
    /\ \A p \in Requests : \A q \in Requests \ {p} :
          (Received(p) /\ running[q] # NoOp)
          => /\ running'[q].frame.hosts = running[q].frame.hosts
             /\ running'[q].frame.host = running[q].frame.host
             /\ Contents(q)' = Contents(q)

\* C15: while an instance handles several requests, an answer that the
\* loop of one of them receives changes neither SeenHosts nor the contents
\* of the scratch directory of another, nor the identity under which the
\* other runs; and no step of a handler changes numberPods.
C15_Isolated == [][C15_Step]_vars

\* two aggregations on one replica, each with its directory: one has stored
\* the artifact of a peer, the other knows only itself
C15_Witness ==
    \E p, q \in Requests :
        /\ p # q
        /\ running[p].frame.host = running[q].frame.host
        /\ running[p].tmpDir # NoDir /\ running[q].tmpDir # NoDir
        /\ \E r \in Replicas : running[p].frame.artifacts[r] = 1
        /\ running[q].frame.pc = "request"
        /\ running[q].frame.hosts = {running[q].frame.host}

\* C21: a loop that received an answer has called resp.Body.Close() on it
\* when it issues its next request or returns: for the answer of a new
\* host, for a duplicate, and when reading the body or writing the artifact
\* failed. The body of the last response is never left open.
C21_Claim ==
    body # "open"

====
